---------------------------- MODULE Spec2Model ----------------------------
(***************************************************************************)
(* Terminal-Anki (anki.py): the review session of review_due_questions,   *)
(* the scheduler update_schedule_after_review / is_question_due_for_review*)
(* and the maintenance operations on the schedule_info table.             *)
(*                                                                         *)
(* Representation.  A line of text is a sequence of characters, so that   *)
(* line.startswith('?') can be computed.  A text with newlines (a file's  *)
(* content, a chunk) is the sequence of its lines, i.e. text.split('\n'); *)
(* '\n'.join(lines) is the text whose sequence of lines is `lines`.  A    *)
(* calendar date is its day number counted from Day0Date; the table      *)
(* stores dates in their "%Y-%m-%d" form, modelled as <<year, month, day>>.*)
(***************************************************************************)
EXTENDS Integers, Sequences, FiniteSets, TLC

VARIABLES
    file,             \* content of the source file, as its sequence of lines
    db,               \* schedule_info: question_hash -> <<due_date, review_date_index>>
    today,            \* datetime.now().date(), as a day number
    pc,               \* position of the process: "idle", "outer", "inner", "vim", "returned"
    reviewed_hashes,  \* review_due_questions: reviewed_hashes
    history_stack,    \* review_due_questions: history_stack
    due_deque,        \* review_due_questions: due_deque
    card,             \* the (question_line, chunk) popped by the inner loop
    exit_code,        \* the last value returned by display_flashcard_in_vim
    edits,            \* number of times open_file_for_editing has run
    printed,          \* whether "No due questions in this file." was printed
    db_start,         \* history: the table when the session started
    last_outcome,     \* history: the last outcome applied, <<"applied" or "undone",
                      \*   identifier, table before it, day of it>>, while the next
                      \*   presentation has received nothing but an UNDO of it
    applied,          \* history: identifier -> outcome applied to it, until an UNDO
                      \*   puts the identifier back on the queue
    plan,             \* history: the two cards the last UNDO put at the front of the
                      \*   queue, less those that have received their outcome
    pending,          \* history: outcomes applied minus outcomes undone
    peak              \* history: the largest value `pending` had in the session

vars == <<file, db, today, pc, reviewed_hashes, history_stack, due_deque,
          card, exit_code, edits, printed,
          db_start, last_outcome, applied, plan, pending, peak>>

---------------------------------------------------------------------------
(* Bounds of the model *)

\* longest file content, in lines
MaxLines == 3
\* the clock advances at most this many days during a behaviour
MaxDay == 1
\* longest undo history explored
MaxHistory == 2
\* most EDIT outcomes in a session
MaxEdits == 1

---------------------------------------------------------------------------
(* Program constants *)

SCHEDULE_INTERVALS_DAYS == <<0, 1, 3, 7, 14, 28, 56>>

QUIT == 0
WRONG == 1
EDIT == 2
SKIP == 3
CORRECT == 4
UNDO == 5

\* Python's None: the result of fetchone() when no row matches
None == <<>>

\* exit_code before display_flashcard_in_vim has returned once (no exit code)
NoCode == 0 - 1

\* the lines a file is made of: two question lines, an answer line; '' is the
\* blank line
QA == <<"?", "A">>
QB == <<"?", "B">>
Ans == <<"x">>
Blank == <<>>
Lines == {QA, QB, Ans}

---------------------------------------------------------------------------
(* Calendar: strftime("%Y-%m-%d") and strptime(..., "%Y-%m-%d") *)

\* the date with day number 0
Day0Date == <<2025, 11, 20>>

IsLeap(y) == (y % 4 = 0 /\ y % 100 # 0) \/ y % 400 = 0

DaysInMonth(y, m) ==
    IF m = 2 THEN (IF IsLeap(y) THEN 29 ELSE 28)
    ELSE IF m \in {4, 6, 9, 11} THEN 30 ELSE 31

RECURSIVE Normalize(_, _, _)
\* carry a day-of-month that ran over (or under) into the month and the year
Normalize(y, m, d) ==
    IF d > DaysInMonth(y, m)
    THEN IF m = 12 THEN Normalize(y + 1, 1, d - DaysInMonth(y, m))
                   ELSE Normalize(y, m + 1, d - DaysInMonth(y, m))
    ELSE IF d < 1
    THEN IF m = 1 THEN Normalize(y - 1, 12, d + 31)
                  ELSE Normalize(y, m - 1, d + DaysInMonth(y, m - 1))
    ELSE <<y, m, d>>

\* date.strftime("%Y-%m-%d") of the date with day number n
Strftime(n) == Normalize(Day0Date[1], Day0Date[2], Day0Date[3] + n)

RECURSIVE DaysBetween(_, _)
\* number of days from date a to a later-or-equal date b
DaysBetween(a, b) ==
    IF a[1] = b[1] /\ a[2] = b[2] THEN b[3] - a[3]
    ELSE (DaysInMonth(a[1], a[2]) - a[3] + 1)
         + DaysBetween(IF a[2] = 12 THEN <<a[1] + 1, 1, 1>> ELSE <<a[1], a[2] + 1, 1>>, b)

Before(a, b) ==
    a[1] < b[1] \/ (a[1] = b[1] /\ (a[2] < b[2] \/ (a[2] = b[2] /\ a[3] < b[3])))

\* datetime.strptime(s, "%Y-%m-%d").date(), as a day number
Strptime(s) == IF Before(s, Day0Date) THEN 0 - DaysBetween(s, Day0Date)
               ELSE DaysBetween(Day0Date, s)

---------------------------------------------------------------------------
(* Question identity and parsing *)

\* hashlib.sha256(text.encode()).hexdigest(): a digest, equal for equal texts
\* and (collision resistance) different for different texts
compute_sha256_hash(text) == [sha256 |-> text]

\* line.startswith('?')
StartsWithQuestionMark(line) == Len(line) > 0 /\ line[1] = "?"

RECURSIVE StripTrailingBlank(_)
\* while current_chunk_lines and current_chunk_lines[-1] == '': pop()
StripTrailingBlank(ls) ==
    IF Len(ls) > 0 /\ ls[Len(ls)] = Blank
    THEN StripTrailingBlank(SubSeq(ls, 1, Len(ls) - 1))
    ELSE ls

\* save the chunk being accumulated, if any lines remain after trimming
SaveChunk(chunks, current) ==
    IF Len(current) > 0 /\ Len(StripTrailingBlank(current)) > 0
    THEN Append(chunks, StripTrailingBlank(current))
    ELSE chunks

RECURSIVE ParseFrom(_, _, _, _)
\* the for-loop over content.split('\n'), from line i on
ParseFrom(content, i, chunks, current) ==
    IF i > Len(content) THEN SaveChunk(chunks, current)
    ELSE IF StartsWithQuestionMark(content[i])
         THEN ParseFrom(content, i + 1, SaveChunk(chunks, current), <<content[i]>>)
    ELSE IF Len(current) > 0
         THEN ParseFrom(content, i + 1, chunks, Append(current, content[i]))
    ELSE ParseFrom(content, i + 1, chunks, current)

parse_question_answer_pair_chunks_from_file(content) ==
    ParseFrom(content, 1, <<>>, <<>>)

\* chunk.split('\n')[0], as a text
QuestionLine(chunk) == <<chunk[1]>>

---------------------------------------------------------------------------
(* Schedule store *)

get_due_date_and_schedule_index_from_database(d, question_hash) ==
    IF question_hash \in DOMAIN d THEN d[question_hash] ELSE None

\* faulty variant: an UPDATE, which writes no row for a new question_hash
InsertOrReplaceUpdateOnly(d, question_hash, row) ==
    [k \in DOMAIN d |-> IF k = question_hash THEN row ELSE d[k]]

\* INSERT OR REPLACE INTO schedule_info ...
InsertOrReplace(d, question_hash, row) ==
    [k \in DOMAIN d \cup {question_hash} |-> IF k = question_hash THEN row ELSE d[k]]

\* DELETE FROM schedule_info WHERE question_hash = ?
DeleteRow(d, question_hash) ==
    [k \in DOMAIN d \ {question_hash} |-> d[k]]

Min(a, b) == IF a <= b THEN a ELSE b

\* faulty variant: a new card starts at index 0
CurrentIndexFromZero(info) == IF info # None THEN info[2] ELSE 0

\* current_index = info[1] if info else 1
CurrentIndex(info) == IF info # None THEN info[2] ELSE 1

\* faulty variant: WRONG leaves the index where it is
NewIndexKeptOnWrong(current_index, review_result) ==
    IF review_result = CORRECT
    THEN Min(current_index + 1, Len(SCHEDULE_INTERVALS_DAYS) - 1)
    ELSE current_index

\* faulty variant: WRONG steps one rung down instead of resetting
NewIndexDemote(current_index, review_result) ==
    IF review_result = WRONG THEN current_index - 1
    ELSE IF review_result = CORRECT
         THEN Min(current_index + 1, Len(SCHEDULE_INTERVALS_DAYS) - 1)
    ELSE current_index

\* new_index of update_schedule_after_review
NewIndex(current_index, review_result) ==
    IF review_result = WRONG THEN 0
    ELSE IF review_result = CORRECT
         THEN Min(current_index + 1, Len(SCHEDULE_INTERVALS_DAYS) - 1)
    ELSE current_index

\* due_date of update_schedule_after_review, as a day number
NewDueDate(new_index, review_result, now) ==
    IF review_result = CORRECT
    THEN now + SCHEDULE_INTERVALS_DAYS[new_index + 1]
    ELSE now

update_schedule_after_review(d, question_hash, review_result, now) ==
    LET info == get_due_date_and_schedule_index_from_database(d, question_hash)
        new_index == NewIndex(CurrentIndex(info), review_result)
        due_date == NewDueDate(new_index, review_result, now)
    IN  InsertOrReplace(d, question_hash, <<Strftime(due_date), new_index>>)

\* faulty variant: due only when the due date is strictly before today
is_question_due_strictly(d, question_hash, now) ==
    LET info == get_due_date_and_schedule_index_from_database(d, question_hash)
    IN  IF info = None THEN TRUE
        ELSE Strptime(info[1]) < now

is_question_due_for_review(d, question_hash, now) ==
    LET info == get_due_date_and_schedule_index_from_database(d, question_hash)
    IN  IF info = None THEN TRUE
        ELSE Strptime(info[1]) <= now

RECURSIVE DueFrom(_, _, _, _)
DueFrom(chunks, i, d, now) ==
    IF i > Len(chunks) THEN <<>>
    ELSE IF is_question_due_for_review(d, compute_sha256_hash(QuestionLine(chunks[i])), now)
         THEN <<<<QuestionLine(chunks[i]), chunks[i]>>>> \o DueFrom(chunks, i + 1, d, now)
    ELSE DueFrom(chunks, i + 1, d, now)

\* the list of (question_line, chunk) of the chunks that are due, in file order
get_due_questions(chunks, d, now) == DueFrom(chunks, 1, d, now)

RECURSIVE FilterReviewed(_, _)
\* [(q, c) for q, c in due if compute_sha256_hash(q) not in reviewed_hashes]
FilterReviewed(due, reviewed) ==
    IF due = <<>> THEN <<>>
    ELSE IF compute_sha256_hash(Head(due)[1]) \notin reviewed
         THEN <<Head(due)>> \o FilterReviewed(Tail(due), reviewed)
    ELSE FilterReviewed(Tail(due), reviewed)

---------------------------------------------------------------------------
(* Initial states *)

RECURSIVE SeqsUpTo(_, _)
\* the sequences over S of length at most n
SeqsUpTo(S, n) ==
    IF n = 0 THEN {<<>>}
    ELSE LET shorter == SeqsUpTo(S, n - 1)
         IN  shorter \cup {Append(s, x) : s \in shorter, x \in S}

\* the file contents explored
Files == SeqsUpTo(Lines, MaxLines)

\* the identifiers the sessions on these files can store
Hashes == {compute_sha256_hash(<<QA>>), compute_sha256_hash(<<QB>>)}

EmptyTable == [k \in {} |-> None]

\* rows left by the sessions of earlier days: for "?A" index 5 due since
\* yesterday or index 6 due today, for "?B" index 2 due tomorrow
InitRows(h) ==
    IF h = compute_sha256_hash(<<QA>>)
    THEN {<<Strftime(0 - 1), 5>>, <<Strftime(0), 6>>}
    ELSE {<<Strftime(1), 2>>}

InitTables ==
    UNION {{t \in [S -> UNION {InitRows(h) : h \in S}] : \A h \in S : t[h] \in InitRows(h)}
              : S \in SUBSET Hashes}

Init ==
    /\ file \in Files
    /\ db \in InitTables
    /\ today = 0
    /\ pc = "idle"
    /\ reviewed_hashes = {}
    /\ history_stack = <<>>
    /\ due_deque = <<>>
    /\ card = None
    /\ exit_code = NoCode
    /\ edits = 0
    /\ printed = FALSE
    /\ db_start = db
    /\ last_outcome = None
    /\ applied = EmptyTable
    /\ plan = <<>>
    /\ pending = 0
    /\ peak = 0

---------------------------------------------------------------------------
(* review_due_questions *)

\* entry: initialize_database(); reviewed_hashes = set(); history_stack = []
StartReview ==
    /\ pc = "idle"
    /\ pc' = "outer"
    /\ reviewed_hashes' = {}
    /\ history_stack' = <<>>
    /\ db_start' = db
    /\ UNCHANGED <<file, db, today, due_deque, card, exit_code, edits, printed,
                   last_outcome, applied, plan, pending, peak>>

\* the due list of one pass of the outer loop
SelectDue(content, d, now, reviewed) ==
    FilterReviewed(
        get_due_questions(parse_question_answer_pair_chunks_from_file(content), d, now),
        reviewed)

\* faulty variant: the message is printed whatever was reviewed
SelectNonePrintsAlways ==
    /\ pc = "outer"
    /\ SelectDue(file, db, today, reviewed_hashes) = <<>>
    /\ printed' = TRUE
    /\ pc' = "returned"
    /\ UNCHANGED <<file, db, today, reviewed_hashes, history_stack, due_deque,
                   card, exit_code, edits,
                   db_start, last_outcome, applied, plan, pending, peak>>

\* top of `while True`: nothing is due, so the session returns
SelectNone ==
    /\ pc = "outer"
    /\ SelectDue(file, db, today, reviewed_hashes) = <<>>
    /\ printed' = (reviewed_hashes = {})
    /\ pc' = "returned"
    /\ UNCHANGED <<file, db, today, reviewed_hashes, history_stack, due_deque,
                   card, exit_code, edits,
                   db_start, last_outcome, applied, plan, pending, peak>>

\* top of `while True`: due_deque = deque(due)
SelectSome ==
    /\ pc = "outer"
    /\ SelectDue(file, db, today, reviewed_hashes) # <<>>
    /\ due_deque' = SelectDue(file, db, today, reviewed_hashes)
    /\ pc' = "inner"
    /\ UNCHANGED <<file, db, today, reviewed_hashes, history_stack,
                   card, exit_code, edits, printed,
                   db_start, last_outcome, applied, plan, pending, peak>>

\* faulty variant: the card displayed is left at the head of the queue
PopLeftKeepsQueue ==
    /\ pc = "inner"
    /\ due_deque # <<>>
    /\ card' = Head(due_deque)
    /\ due_deque' = due_deque
    /\ pc' = "vim"
    /\ UNCHANGED <<file, db, today, reviewed_hashes, history_stack,
                   exit_code, edits, printed,
                   db_start, last_outcome, applied, plan, pending, peak>>

\* `while due_deque:` popleft(), and display_flashcard_in_vim starts
PopLeft ==
    /\ pc = "inner"
    /\ due_deque # <<>>
    /\ card' = Head(due_deque)
    /\ due_deque' = Tail(due_deque)
    /\ pc' = "vim"
    /\ UNCHANGED <<file, db, today, reviewed_hashes, history_stack,
                   exit_code, edits, printed,
                   db_start, last_outcome, applied, plan, pending, peak>>

\* the `else` of the inner while: the queue ran empty
LoopElse ==
    /\ pc = "inner"
    /\ due_deque = <<>>
    /\ pc' = "returned"
    /\ UNCHANGED <<file, db, today, reviewed_hashes, history_stack, due_deque,
                   card, exit_code, edits, printed,
                   db_start, last_outcome, applied, plan, pending, peak>>

\* what is left of the plan once its first card has received its outcome
PlanAfter == IF plan = <<>> THEN <<>> ELSE Tail(plan)

\* faulty variant: the card is marked skipped before the session returns
QuitAfterSkip ==
    /\ pc = "vim"
    /\ exit_code' = QUIT
    /\ pc' = "returned"
    /\ db' = update_schedule_after_review(db, compute_sha256_hash(card[1]), SKIP, today)
    /\ plan' = PlanAfter
    /\ last_outcome' = None
    /\ UNCHANGED <<file, today, reviewed_hashes, history_stack, due_deque,
                   card, edits, printed, db_start, applied, pending, peak>>

Quit ==
    /\ pc = "vim"
    /\ exit_code' = QUIT
    /\ pc' = "returned"
    /\ plan' = PlanAfter
    /\ last_outcome' = None
    /\ UNCHANGED <<file, db, today, reviewed_hashes, history_stack, due_deque,
                   card, edits, printed, db_start, applied, pending, peak>>

\* open_file_for_editing: the user leaves any content; break to re-parse
Edit ==
    /\ pc = "vim"
    /\ edits < MaxEdits
    /\ edits' = edits + 1
    /\ exit_code' = EDIT
    /\ \E content \in Files : file' = content
    /\ pc' = "outer"
    /\ plan' = PlanAfter
    /\ last_outcome' = None
    /\ UNCHANGED <<db, today, reviewed_hashes, history_stack, due_deque,
                   card, printed, db_start, applied, pending, peak>>

\* faulty variant: the UNDO is ignored and the inner loop goes on
UndoEmptyIgnored ==
    /\ pc = "vim"
    /\ history_stack = <<>>
    /\ exit_code' = UNDO
    /\ pc' = "inner"
    /\ plan' = PlanAfter
    /\ last_outcome' = None
    /\ UNCHANGED <<file, db, today, reviewed_hashes, history_stack, due_deque,
                   card, edits, printed, db_start, applied, pending, peak>>

UndoEmpty ==
    /\ pc = "vim"
    /\ history_stack = <<>>
    /\ exit_code' = UNDO
    /\ pc' = "returned"
    /\ plan' = PlanAfter
    /\ last_outcome' = None
    /\ UNCHANGED <<file, db, today, reviewed_hashes, history_stack, due_deque,
                   card, edits, printed, db_start, applied, pending, peak>>

\* faulty variant: the oldest record is read instead of the newest
PopRecordOldest(stack) == stack[1]

\* history_stack.pop(): the record popped, and the stack left
PopRecord(stack) == stack[Len(stack)]

\* faulty variant: the record read stays on the stack
PopRestKept(stack) == stack

PopRest(stack) == SubSeq(stack, 1, Len(stack) - 1)

\* faulty variant: the row of a question that was new is left in the table
RestoreStateNoDelete(d, prev_hash, prev_state) ==
    IF prev_state = None THEN d
    ELSE InsertOrReplace(d, prev_hash, <<prev_state[1], prev_state[2]>>)

\* restore the previous database state of an undo record
RestoreState(d, prev_hash, prev_state) ==
    IF prev_state = None THEN DeleteRow(d, prev_hash)
    ELSE InsertOrReplace(d, prev_hash, <<prev_state[1], prev_state[2]>>)

\* faulty variant: the two appendleft calls in the other order
RequeueSwapped(queue, current, previous) == <<current, previous>> \o queue

\* appendleft(current card), then appendleft(previous card)
Requeue(queue, current, previous) == <<previous, current>> \o queue

Undo ==
    /\ pc = "vim"
    /\ history_stack # <<>>
    /\ exit_code' = UNDO
    /\ LET rec == PopRecord(history_stack)
       IN  /\ history_stack' = PopRest(history_stack)
           /\ db' = RestoreState(db, rec[1], rec[2])
           /\ reviewed_hashes' = reviewed_hashes \ {rec[1]}
           /\ due_deque' = Requeue(due_deque, card, rec[3])
           /\ applied' = [k \in DOMAIN applied \ {rec[1], compute_sha256_hash(card[1])}
                             |-> applied[k]]
           /\ plan' = <<rec[3], card>>
    /\ last_outcome' = IF last_outcome # None /\ last_outcome[1] = "applied"
                       THEN <<"undone", last_outcome[2], last_outcome[3], last_outcome[4]>>
                       ELSE None
    /\ pending' = pending - 1
    /\ pc' = "inner"
    /\ UNCHANGED <<file, today, card, edits, printed, db_start, peak>>

\* WRONG, CORRECT or SKIP
Review ==
    /\ pc = "vim"
    /\ Len(history_stack) < MaxHistory
    /\ \E code \in {WRONG, CORRECT, SKIP} :
        LET question_hash == compute_sha256_hash(card[1])
            prev_state == get_due_date_and_schedule_index_from_database(db, question_hash)
        IN  /\ exit_code' = code
            /\ history_stack' = Append(history_stack, <<question_hash, prev_state, card>>)
            /\ db' = update_schedule_after_review(db, question_hash, code, today)
            /\ reviewed_hashes' = reviewed_hashes \cup {question_hash}
            /\ applied' = [k \in DOMAIN applied \cup {question_hash}
                              |-> IF k = question_hash THEN code ELSE applied[k]]
            /\ last_outcome' = <<"applied", question_hash, db, today>>
    /\ plan' = PlanAfter
    /\ pending' = pending + 1
    /\ peak' = IF pending + 1 > peak THEN pending + 1 ELSE peak
    /\ pc' = "inner"
    /\ UNCHANGED <<file, today, due_deque, card, edits, printed, db_start>>

---------------------------------------------------------------------------
(* Maintenance, run before the session is started or after it has returned *)

RECURSIVE ChunkTextHashes(_)
\* faulty variant: the hashes of the whole text of the chunks
ChunkTextHashes(chunks) ==
    IF chunks = <<>> THEN {}
    ELSE {compute_sha256_hash(Head(chunks))} \cup ChunkTextHashes(Tail(chunks))

RECURSIVE QuestionHashes(_)
\* the hashes of the question lines of a list of chunks
QuestionHashes(chunks) ==
    IF chunks = <<>> THEN {}
    ELSE {compute_sha256_hash(QuestionLine(Head(chunks)))} \cup QuestionHashes(Tail(chunks))

\* faulty variant: a row is written for every hash collected
DeleteOrphansAdding(d, current) ==
    [k \in current |-> IF k \in DOMAIN d THEN d[k] ELSE <<Strftime(0), 1>>]

\* delete_orphaned_schedule_entries, `current` being the hashes collected
DeleteOrphans(d, current) == [k \in DOMAIN d \cap current |-> d[k]]

\* display_due_questions_tree on a directory: the reviewed file is or is not
\* one of the *.txt files below it
Prune ==
    /\ pc \in {"idle", "returned"}
    /\ \E under_root \in BOOLEAN :
        db' = DeleteOrphans(db,
                 IF under_root
                 THEN QuestionHashes(parse_question_answer_pair_chunks_from_file(file))
                 ELSE {})
    /\ UNCHANGED <<file, today, pc, reviewed_hashes, history_stack, due_deque,
                   card, exit_code, edits, printed,
                   db_start, last_outcome, applied, plan, pending, peak>>

\* forget_file_schedule: DELETE the row of every question line of the file
ForgetRows(d, chunks) == [k \in DOMAIN d \ QuestionHashes(chunks) |-> d[k]]

Forget ==
    /\ pc \in {"idle", "returned"}
    /\ db' = ForgetRows(db, parse_question_answer_pair_chunks_from_file(file))
    /\ UNCHANGED <<file, today, pc, reviewed_hashes, history_stack, due_deque,
                   card, exit_code, edits, printed,
                   db_start, last_outcome, applied, plan, pending, peak>>

\* midnight passes.  The process reads the clock in the selection pass and in
\* update_schedule_after_review only; the days pass before it is started and
\* while it waits for vim to exit.
Tick ==
    /\ pc \in {"idle", "vim"}
    /\ today < MaxDay
    /\ today' = today + 1
    /\ UNCHANGED <<file, db, pc, reviewed_hashes, history_stack, due_deque,
                   card, exit_code, edits, printed,
                   db_start, last_outcome, applied, plan, pending, peak>>

Next ==
    \/ StartReview
    \/ SelectNone
    \/ SelectSome
    \/ PopLeft
    \/ LoopElse
    \/ Quit
    \/ Edit
    \/ UndoEmpty
    \/ Undo
    \/ Review
    \/ Prune
    \/ Forget
    \/ Tick

Spec == Init /\ [][Next]_vars

\* the steps the interpreter takes by itself, and the return of
\* display_flashcard_in_vim with one of the exit codes
Advance == StartReview \/ SelectNone \/ SelectSome \/ PopLeft \/ LoopElse
Reveal == Quit \/ Edit \/ UndoEmpty \/ Undo \/ Review

\* the sessions checked for termination: two question lines in either order,
\* with and without an answer line, and a repeated question line, over the
\* tables in which no row is at the last index
FairFiles == {<<QA, QB>>, <<QB, Ans, QA>>, <<QA, QA>>}
FairTables == {t \in InitTables : \A h \in DOMAIN t : t[h][2] # 6}
FairInit == Init /\ file \in FairFiles /\ db \in FairTables

\* the session is started, the interpreter does not stop between two
\* statements, and every call of display_flashcard_in_vim returns
FairSpec == FairInit /\ [][Next]_vars /\ WF_vars(Advance) /\ WF_vars(Reveal)

---------------------------------------------------------------------------
(* Properties *)

\* the identifier of the card popped by the inner loop
CardHash == compute_sha256_hash(card[1])

\* the last step applied WRONG, CORRECT or SKIP
JustApplied == pc = "inner" /\ last_outcome # None /\ last_outcome[1] = "applied"

\* the identifier the last outcome was applied to, its row (or None) in the
\* table before it, the index it counted from, and the day it was applied
LastHash == last_outcome[2]
LastRowBefore == get_due_date_and_schedule_index_from_database(last_outcome[3], LastHash)
LastIndexBefore == IF LastRowBefore = None THEN 1 ELSE LastRowBefore[2]
LastDay == last_outcome[4]

\* the ladder as the specification gives it
Ladder == <<0, 1, 3, 7, 14, 28, 56>>

\* C1 (as claimed): a card whose identifier has received WRONG, CORRECT or SKIP in
\* this session is not presented again, unless an UNDO put that identifier back
\* on the queue since.
C1_SessionDedup ==
    pc = "vim" => CardHash \notin DOMAIN applied

\* C2: when the presentation that follows an applied outcome receives UNDO, the
\* row of that outcome's identifier is what it was before the outcome (the same
\* due date and index, or absent), and the identifier is not in the reviewed set.
C2_UndoRoundTrip ==
    (last_outcome # None /\ last_outcome[1] = "undone") =>
        /\ get_due_date_and_schedule_index_from_database(db, LastHash) = LastRowBefore
        /\ LastHash \notin reviewed_hashes

C2_Witness ==
    /\ last_outcome # None /\ last_outcome[1] = "undone"
    /\ pc = "inner"
    /\ LastRowBefore = None
    /\ LastHash \notin DOMAIN db

\* C3: in a session, whenever as many outcomes have been undone as were applied,
\* the table is the table of the session's start (rows that did not exist are
\* absent again) and the undo history is empty.
C3_MultiLevelUndo ==
    (pc \in {"outer", "inner", "vim"} /\ pending = 0) =>
        /\ db = db_start
        /\ history_stack = <<>>

C3_Witness ==
    /\ pc = "inner" /\ exit_code = UNDO
    /\ pending = 0 /\ peak >= 2 /\ edits >= 1
    /\ DOMAIN db = {}

\* C4: CORRECT stores index min(i + 1, 6), i being the stored index or 1 for an
\* absent row, and the due date of the day of the review plus ladder[index]
\* days; the index grows unless it was the last one, where it stays.
C4_Correct ==
    (JustApplied /\ exit_code = CORRECT) =>
        /\ LastHash \in DOMAIN db
        /\ db[LastHash][2] = Min(LastIndexBefore + 1, Len(Ladder) - 1)
        /\ db[LastHash][1] = Strftime(LastDay + Ladder[db[LastHash][2] + 1])
        /\ Strptime(db[LastHash][1]) = LastDay + Ladder[db[LastHash][2] + 1]
        /\ IF LastIndexBefore = Len(Ladder) - 1
           THEN db[LastHash][2] = LastIndexBefore
           ELSE db[LastHash][2] > LastIndexBefore

C4_Witness ==
    /\ JustApplied /\ exit_code = CORRECT
    /\ LastRowBefore # None /\ LastRowBefore[2] = 6
    /\ db[LastHash] = <<Strftime(LastDay + 56), 6>>

\* C5: WRONG stores index 0 and the day of the review as due date, whatever the
\* row was before.
C5_Wrong ==
    (JustApplied /\ exit_code = WRONG) =>
        /\ LastHash \in DOMAIN db
        /\ db[LastHash] = <<Strftime(LastDay), 0>>
        /\ Strptime(db[LastHash][1]) = LastDay

C5_Witness ==
    /\ JustApplied /\ exit_code = WRONG
    /\ LastRowBefore # None /\ LastRowBefore[2] = 6
    /\ db[LastHash][2] = 0

\* a step that applies WRONG, CORRECT or SKIP to identifier h
AppliesTo(h) ==
    /\ pc = "vim"
    /\ pending' = pending + 1
    /\ h = CardHash

\* C6 (as claimed): an absent identifier becomes present only in a step that
\* applies WRONG or CORRECT to it.
C6_CreatedByWrongOrCorrectOnly ==
    [][\A h \in Hashes :
          (h \notin DOMAIN db /\ h \in DOMAIN db') =>
              (AppliesTo(h) /\ exit_code' \in {WRONG, CORRECT})]_vars

\* C6 (amended): an absent identifier becomes present exactly in the steps that
\* apply WRONG, CORRECT or SKIP to it; no other step makes it present.
C6_EntryCreation ==
    [][\A h \in Hashes :
          (h \notin DOMAIN db /\ h \in DOMAIN db') <=>
              (h \notin DOMAIN db /\ AppliesTo(h)
                 /\ exit_code' \in {WRONG, CORRECT, SKIP})]_vars

C6_Witness ==
    /\ JustApplied /\ exit_code = SKIP
    /\ LastRowBefore = None
    /\ LastHash \in DOMAIN db

\* C7 (as claimed): SKIP stores the index unchanged (1 for an absent row) and the
\* day of the review as due date, and a card whose identifier was skipped is not
\* presented again in the session unless an UNDO put it back on the queue.
C7_Skip ==
    /\ (JustApplied /\ exit_code = SKIP) =>
          /\ LastHash \in DOMAIN db
          /\ db[LastHash] = <<Strftime(LastDay), LastIndexBefore>>
    /\ pc = "vim" =>
          ~(CardHash \in DOMAIN applied /\ applied[CardHash] = SKIP)

\* C8: every row of the table has an index that is an index into the ladder.
C8_IndexInLadder ==
    \A h \in DOMAIN db : db[h][2] \in 0 .. 6

C8_Witness ==
    /\ pc = "returned"
    /\ \E h \in DOMAIN db : db[h][2] = 0
    /\ \E h \in DOMAIN db : db[h][2] = 6

\* the chunks of the file
ChunksNow == parse_question_answer_pair_chunks_from_file(file)
\* identifier h is absent from the table or has a due date that is today or earlier
IsDueNow(h) == h \notin DOMAIN db \/ ~Before(Strftime(today), db[h][1])
\* the positions, among `chunks`, of the chunks with such an identifier
DuePositions(chunks) ==
    {i \in 1 .. Len(chunks) : IsDueNow(compute_sha256_hash(<<chunks[i][1]>>))}
\* the k-th smallest element of a set of numbers
Kth(S, k) == CHOOSE i \in S : Cardinality({j \in S : j < i}) = k - 1
\* the queue has just been built by a selection pass
JustSelected == pc = "inner" /\ exit_code \in {NoCode, EDIT}

\* C9: an identifier is due iff it is absent or its due date is today or
\* earlier (dates compared as dates); the due list is the chunks with such an
\* identifier, in file order, and a selection pass queues those of them whose
\* identifier is not in the reviewed set.
C9_Dueness ==
    /\ \A h \in Hashes : is_question_due_for_review(db, h, today) <=> IsDueNow(h)
    /\ LET chunks == ChunksNow
           positions == DuePositions(chunks)
           due == get_due_questions(chunks, db, today)
           queued == {i \in positions :
                         compute_sha256_hash(<<chunks[i][1]>>) \notin reviewed_hashes}
       IN  /\ Len(due) = Cardinality(positions)
           /\ \A k \in 1 .. Len(due) :
                 due[k] = <<<<chunks[Kth(positions, k)][1]>>, chunks[Kth(positions, k)]>>
           /\ JustSelected =>
                 /\ Len(due_deque) = Cardinality(queued)
                 /\ \A k \in 1 .. Len(due_deque) :
                       due_deque[k] = <<<<chunks[Kth(queued, k)][1]>>, chunks[Kth(queued, k)]>>

C9_Witness ==
    /\ JustSelected /\ exit_code = NoCode
    /\ Len(ChunksNow) = 3 /\ Len(due_deque) = 2
    /\ \E h \in DOMAIN db : Strptime(db[h][1]) = today
    /\ \E h \in DOMAIN db : Strptime(db[h][1]) > today

\* C10 (as claimed): after an UNDO with a non-empty history received while card
\* X was presented, the next card presented is the card of the popped record
\* and the card presented after that one is X.
C10_UndoneThenCurrent ==
    (pc = "vim" /\ plan # <<>>) => card = Head(plan)

\* C10 (amended): the next card presented is the card of the popped record;
\* if that card receives WRONG, CORRECT or SKIP, the card presented after it is
\* X, ahead of the cards that were waiting in the queue.
C10_UndoOrdering ==
    /\ (pc = "vim" /\ plan # <<>> /\ (Len(plan) = 2 \/ exit_code \in {WRONG, CORRECT, SKIP}))
          => card = Head(plan)
    /\ (pc = "inner" /\ plan # <<>> /\ exit_code \in {UNDO, WRONG, CORRECT, SKIP})
          => /\ Len(due_deque) >= Len(plan)
             /\ SubSeq(due_deque, 1, Len(plan)) = plan

C10_Witness ==
    /\ pc = "vim" /\ Len(plan) = 1
    /\ exit_code \in {WRONG, CORRECT, SKIP}
    /\ card = plan[1]
    /\ due_deque # <<>>

\* the vim of the presented card has just exited with `code`, in this step
Returns(code) == pc = "vim" /\ pc' # "vim" /\ exit_code' = code

\* C11: UNDO received while the undo history is empty ends the session at once;
\* the table, the reviewed set and the history are what they were.
C11_UndoEmptyHistory ==
    [][(Returns(UNDO) /\ history_stack = <<>>) =>
          /\ pc' = "returned"
          /\ UNCHANGED <<db, reviewed_hashes, history_stack>>]_vars

C11_Witness ==
    /\ pc = "returned" /\ exit_code = UNDO
    /\ history_stack = <<>>
    /\ due_deque # <<>>
    /\ peak >= 1

\* C12: the undo history grows by exactly one record in the steps that apply
\* WRONG, CORRECT or SKIP, loses exactly its last record in the steps of an UNDO
\* that continues the session, and is left as it was by every other step (EDIT,
\* QUIT, the re-parse and the selection among them).
C12_HistoryFrame ==
    [][/\ (pc = "vim" /\ pc' = "inner" /\ exit_code' \in {WRONG, CORRECT, SKIP}) =>
             /\ Len(history_stack') = Len(history_stack) + 1
             /\ SubSeq(history_stack', 1, Len(history_stack)) = history_stack
       /\ (pc = "vim" /\ pc' = "inner" /\ exit_code' = UNDO) =>
             /\ Len(history_stack') = Len(history_stack) - 1
             /\ SubSeq(history_stack, 1, Len(history_stack')) = history_stack'
       /\ (history_stack' # history_stack) =>
             /\ pc = "vim" /\ pc' = "inner"
             /\ exit_code' \in {WRONG, CORRECT, SKIP, UNDO}]_vars

C12_Witness ==
    /\ pc = "outer" /\ exit_code = EDIT
    /\ Len(history_stack) = 2

\* C13: QUIT ends the session at once, and no outcome is applied for the card
\* presented: from its presentation to the return the table does not change.
C13_Quit ==
    [][/\ Returns(QUIT) =>
             /\ pc' = "returned"
             /\ UNCHANGED <<db, reviewed_hashes, history_stack>>
       /\ (pc = "vim" /\ pc' = "vim") => UNCHANGED db]_vars

C13_Witness ==
    /\ pc = "returned" /\ exit_code = QUIT
    /\ due_deque # <<>>
    /\ history_stack # <<>>
    /\ db # db_start

\* the identifier of a question line
IdOf(line) == compute_sha256_hash(<<line>>)
\* the identifiers of the question lines of the chunks of the file, and the
\* hashes of the whole text of those chunks
IdsInFile == {IdOf(ChunksNow[i][1]) : i \in 1 .. Len(ChunksNow)}
FullTextIds == {compute_sha256_hash(ChunksNow[i]) : i \in 1 .. Len(ChunksNow)}

\* C14 (as claimed): whatever directory the prune is run on, it deletes no row
\* whose question line is the question line of a chunk of a source file.
C14_PruneKeepsExisting ==
    [][Prune => \A h \in DOMAIN db \ DOMAIN db' : h \notin IdsInFile]_vars

\* C15 (as claimed): a prune over a directory that holds the file keeps the
\* rows whose identifier is the hash of the whole text of a chunk of the file,
\* and deletes the others.
C15_PruneByChunkText ==
    [][(Prune /\ DOMAIN db' # {}) =>
          \A h \in DOMAIN db : h \in DOMAIN db' <=> h \in FullTextIds]_vars

\* C15 (amended): a prune over a directory that holds the file keeps the rows
\* whose identifier is the hash of the question line of a chunk of the file,
\* whatever the answer lines of that chunk are, and deletes the others; this is
\* the identifier of the due check and of the review.
C15_PruneByQuestionLine ==
    [][(Prune /\ DOMAIN db' # {}) =>
          \A h \in DOMAIN db : h \in DOMAIN db' <=> h \in IdsInFile]_vars

\* ?A was reviewed as a chunk without answer, the edit gave it an answer and
\* removed ?B, and the prune deleted the row of ?B and kept the row of ?A
C15_Witness ==
    /\ pc = "returned" /\ edits = 1
    /\ history_stack # <<>>
    /\ history_stack[1][1] = IdOf(QA)
    /\ history_stack[1][3][2] = <<QA>>
    /\ ChunksNow = <<(<<QA, Ans>>)>>
    /\ IdOf(QB) \in DOMAIN db_start
    /\ IdOf(QB) \notin DOMAIN db
    /\ IdOf(QA) \in DOMAIN db

\* C16: with S the identifiers of the table and C the identifiers collected
\* (those of the file when it lies under the directory, none when it does not),
\* the table after a prune has the identifiers of S \cap C, each with the due
\* date and index it had, and no other row.
C16_PruneResult ==
    [][Prune =>
          \E C \in {IdsInFile, {}} :
              /\ DOMAIN db' = DOMAIN db \cap C
              /\ \A h \in DOMAIN db' : db'[h] = db[h]]_vars

\* the session changed nothing; the prune deleted ?B and kept the row of ?A
C16_Witness ==
    /\ pc = "returned" /\ exit_code = QUIT
    /\ history_stack = <<>> /\ peak = 0
    /\ DOMAIN db_start = {IdOf(QA), IdOf(QB)}
    /\ IdsInFile = {IdOf(QA)}
    /\ DOMAIN db = {IdOf(QA)}
    /\ db[IdOf(QA)] = db_start[IdOf(QA)]

\* the session has returned from a selection pass that found nothing due: no
\* card was presented since the start or since the last EDIT
ReturnedFromSelection == pc = "returned" /\ exit_code \in {NoCode, EDIT}

\* C17 (as claimed): the session that returns from an empty selection has
\* printed "No due questions in this file." iff no WRONG, CORRECT or SKIP was
\* applied at any earlier point of the session, undone or not.
C17_NothingDueIffNeverReviewed ==
    ReturnedFromSelection => (printed <=> peak = 0)

\* C17 (amended): a selection pass that finds nothing due ends the session; the
\* message is printed iff the reviewed set is empty at that pass, and it is
\* printed by no other step.
C17_NothingDueSignal ==
    /\ [][(pc = "outer" /\ SelectDue(file, db, today, reviewed_hashes) = <<>>)
             => pc' = "returned"]_vars
    /\ [](ReturnedFromSelection => (printed <=> reviewed_hashes = {}))
    /\ [](printed => ReturnedFromSelection)

\* every outcome applied was undone, the edit left nothing due, and the message
\* was printed
C17_Witness ==
    /\ ReturnedFromSelection /\ exit_code = EDIT
    /\ printed
    /\ peak >= 1 /\ pending = 0

\* C18 (as claimed): the card presented is a chunk of the file as the most
\* recent parse read it, with the question line of that chunk; a chunk that an
\* edit removed is not presented.
C18_CardFromLastParse ==
    pc = "vim" =>
        \E i \in 1 .. Len(ChunksNow) :
            card = <<(<<ChunksNow[i][1]>>), ChunksNow[i]>>

\* C19 (as claimed): the reviewed set is the set of the identifiers of the
\* records of the undo history.
C19_ReviewedIsHistory ==
    pc # "idle" =>
        reviewed_hashes = {history_stack[i][1] : i \in 1 .. Len(history_stack)}

\* the cards of the records of the undo history, oldest first
HistoryCards == [i \in 1 .. Len(history_stack) |-> history_stack[i][3]]
\* the card on display, or the card on which QUIT or UNDO ended the session
CardOut ==
    IF pc = "vim" \/ (pc = "returned" /\ exit_code \in {QUIT, UNDO})
    THEN <<card>> ELSE <<>>
\* in a session without EDIT and UNDO: the cards presented so far, followed by
\* the cards that wait in the queue
ShownThenQueued == HistoryCards \o CardOut \o due_deque
\* no two chunks of the file have the same question line
DistinctIds ==
    \A i, j \in 1 .. Len(ChunksNow) : ChunksNow[i][1] = ChunksNow[j][1] => i = j
\* the position in the file of the chunk of a card
PositionOf(c) == CHOOSE i \in 1 .. Len(ChunksNow) : ChunksNow[i] = c[2]
\* no EDIT was received and no applied outcome is undone
NoEditNoUndo == pc \in {"inner", "vim", "returned"} /\ edits = 0 /\ pending = peak

\* C20: if from some point on vim returns neither EDIT nor an UNDO that
\* continues the session, the session returns.  In a session without EDIT and
\* UNDO on a file of distinct question lines, the cards presented so far
\* followed by the queue are, at every moment, the n cards that were due at the
\* selection pass: at most n cards are presented, each once, in file order.
C20_Termination ==
    /\ (<>[][~(Edit \/ Undo)]_vars) => <>(pc = "returned")
    /\ []((NoEditNoUndo /\ DistinctIds) =>
            /\ \E t \in 0 .. today :
                  ShownThenQueued = SelectDue(file, db_start, t, {})
            /\ \A k, l \in 1 .. Len(ShownThenQueued) :
                  k < l => PositionOf(ShownThenQueued[k]) < PositionOf(ShownThenQueued[l]))

\* a session over two due cards, each given an outcome, returned from the
\* exhausted queue
C20_Witness ==
    /\ pc = "returned" /\ exit_code \in {WRONG, CORRECT, SKIP}
    /\ NoEditNoUndo /\ DistinctIds
    /\ due_deque = <<>>
    /\ Len(history_stack) = 2
    /\ history_stack[1][1] = IdOf(QA) /\ history_stack[2][1] = IdOf(QB)
    /\ Len(ChunksNow) = 2

=============================================================================
